---- MODULE Spec2Model ----
(***************************************************************************)
(* Model of the two thermodynamic-cycle scripts of the repository:         *)
(*   q1.py  the air-standard Otto cycle  (otto_cycle and its sweeps)       *)
(*   q2.py  the approximate Rankine cycle (approximate_rankine, its sweep) *)
(*                                                                         *)
(* Numbers.  A number is a triple <<n, d, t>>.  For t = "float" (a Python  *)
(* int or float) and t = "float64" (a numpy scalar, as np.linspace yields) *)
(* with d > 0 it is the rational n/d in lowest terms: arithmetic is exact, *)
(* binary64 rounding is not modelled.  A float64 with d = 0 is one of the  *)
(* IEEE specials numpy produces where Python raises: <<1,0>> = inf,        *)
(* <<-1,0>> = -inf, <<0,0>> = nan.  Any other t is not a number but the    *)
(* name of what stopped the evaluation: "ZeroDivisionError" (the exception *)
(* Python raises), or "inexact" (a power with no rational value, which     *)
(* this arithmetic cannot represent).                                      *)
(***************************************************************************)
EXTENDS Integers, Sequences, FiniteSets, TLC

VARIABLES prog, pc, it, q1, q2, call

vars == <<prog, pc, it, q1, q2, call>>

----------------------------------------------------------------------------
(* Exact arithmetic on numbers *)

Abs(n) == IF n < 0 THEN -n ELSE n

Sgn(n) == IF n < 0 THEN -1 ELSE IF n > 0 THEN 1 ELSE 0

RECURSIVE GCD(_, _)
GCD(a, b) == IF b = 0 THEN a ELSE GCD(b, a % b)

IsNum(a) == a[3] \in {"float", "float64"}

IsFinite(a) == IsNum(a) /\ a[2] # 0

\* the result type of a binary operation: a numpy operand makes it numpy
Kind(a, b) == IF a[3] = "float64" \/ b[3] = "float64" THEN "float64" ELSE "float"

Norm(n, d, t) ==
    LET g == GCD(Abs(n), Abs(d))
    IN  <<Sgn(d) * (n \div g), Abs(d) \div g, t>>

Num(n) == <<n, 1, "float">>

Frac(n, d) == Norm(n, d, "float")

\* np.float64(x)
Float64(a) == <<a[1], a[2], "float64">>

Neg(a) == <<-a[1], a[2], a[3]>>

Add(a, b) ==
    IF ~IsNum(a) THEN a
    ELSE IF ~IsNum(b) THEN b
    ELSE IF a[2] = 0 /\ b[2] = 0
         THEN (IF a[1] = b[1] THEN a ELSE <<0, 0, "float64">>)
    ELSE IF a[2] = 0 THEN a
    ELSE IF b[2] = 0 THEN b
    ELSE LET g == GCD(a[2], b[2])
         IN  Norm(a[1] * (b[2] \div g) + b[1] * (a[2] \div g),
                  (a[2] \div g) * b[2], Kind(a, b))

Sub(a, b) == IF ~IsNum(a) THEN a ELSE IF ~IsNum(b) THEN b ELSE Add(a, Neg(b))

Mul(a, b) ==
    IF ~IsNum(a) THEN a
    ELSE IF ~IsNum(b) THEN b
    ELSE IF a[2] = 0 \/ b[2] = 0
         THEN <<Sgn(a[1]) * Sgn(b[1]), 0, "float64">>
    ELSE LET g1 == GCD(Abs(a[1]), b[2])
             g2 == GCD(Abs(b[1]), a[2])
         IN  Norm((a[1] \div g1) * (b[1] \div g2),
                  (a[2] \div g2) * (b[2] \div g1), Kind(a, b))

\* a / b: a zero divisor raises ZeroDivisionError between Python numbers and
\* yields inf, -inf or nan (with a RuntimeWarning) when an operand is numpy
Div(a, b) ==
    IF ~IsNum(a) THEN a
    ELSE IF ~IsNum(b) THEN b
    ELSE IF b[2] # 0 /\ b[1] = 0
         THEN (IF Kind(a, b) = "float64"
               THEN <<Sgn(a[1]), 0, "float64">>
               ELSE <<0, 0, "ZeroDivisionError">>)
    ELSE IF b[2] = 0
         THEN (IF b[1] # 0 /\ a[2] # 0 THEN <<0, 1, "float64">>
               ELSE <<0, 0, "float64">>)
    ELSE IF a[2] = 0 THEN <<Sgn(a[1]) * Sgn(b[1]), 0, "float64">>
    ELSE Mul(a, <<Sgn(b[1]) * b[2], Abs(b[1]), b[3]>>)

RECURSIVE IPow(_, _)
IPow(k, n) == IF n = 0 THEN 1 ELSE k * IPow(k, n - 1)

\* the positive integer k with k^d = m, or 0 when m is no perfect d-th power
RECURSIVE RootFrom(_, _, _)
RootFrom(m, d, k) ==
    IF IPow(k, d) >= m THEN (IF IPow(k, d) = m THEN k ELSE 0)
    ELSE RootFrom(m, d, k + 1)

\* x ** e for a finite base x > 0 and a finite exponent e = n/d
Pow(x, e) ==
    IF ~IsNum(x) THEN x
    ELSE IF ~IsNum(e) THEN e
    ELSE LET a == RootFrom(x[1], e[2], 1)
             b == RootFrom(x[2], e[2], 1)
             n == Abs(e[1])
         IN  IF a = 0 \/ b = 0 THEN <<0, 0, "inexact">>
             ELSE IF e[1] >= 0 THEN <<IPow(a, n), IPow(b, n), Kind(x, e)>>
             ELSE <<IPow(b, n), IPow(a, n), Kind(x, e)>>

\* comparisons of finite numbers
Lt(a, b) == a[1] * b[2] < b[1] * a[2]

Eq(a, b) == IsFinite(a) /\ IsFinite(b) /\ a[1] = b[1] /\ a[2] = b[2]

Leq(a, b) == Lt(a, b) \/ Eq(a, b)

Zero == Num(0)

One == Num(1)

Pos(a) == IsFinite(a) /\ a[1] > 0

----------------------------------------------------------------------------
(* q1.py: the module namespace and otto_cycle *)

\* a module name that is not bound yet: reading it raises NameError
Unbound == <<0, 0, "NameError">>

NoResult == [outcome |-> "unbound"]

upper_temp_lim == Num(2400)

R_air == Num(287)

\* the module-level gamma, Cv and Cp of lines 9-11 (air)
ModuleGamma == Frac(14, 10)

ModuleCv == Div(R_air, Sub(ModuleGamma, One))

ModuleCp == Mul(ModuleCv, ModuleGamma)

r_main == Num(6)

r_values == <<Num(6), Num(8), Num(10)>>

\* the namespace of q1.py once lines 1-46 have run
Q1Init ==
    [upper_temp_lim |-> upper_temp_lim, R_air |-> R_air, gamma |-> ModuleGamma,
     Cv |-> ModuleCv, Cp |-> ModuleCp, r_main |-> r_main, otto |-> NoResult,
     i |-> Unbound, r |-> Unbound, res |-> NoResult,
     etas |-> <<>>, meps |-> <<>>]

\* line 15: Cv = R / (gamma - 1), R the module's R_air, gamma the parameter
CvModuleGamma(g, gamma) == Div(g.R_air, Sub(g.gamma, One))

Cv(g, gamma) == Div(g.R_air, Sub(gamma, One))

\* line 16
Cp(cv, gamma) == Mul(cv, gamma)

\* lines 19-20: 1 -> 2, isentropic compression
T2(T1, r, gamma) == Mul(T1, Pow(r, Sub(gamma, One)))

P2(P1, r, gamma) == Mul(P1, Pow(r, gamma))

\* line 23: 2 -> 3, constant-volume heat addition
P3(p2, T3, t2) == Mul(p2, Div(T3, t2))

\* lines 26-27: 3 -> 4
T4(T3, r, gamma) == Mul(T3, Pow(r, Sub(One, gamma)))

P4(p3, t4, T3) == Mul(p3, Div(t4, T3))

\* lines 30-32: heat and work per kg
q_in(cv, T3, t2) == Mul(cv, Sub(T3, t2))

q_outSwapped(cv, t4, T1) == Mul(cv, Sub(T1, t4))

q_out(cv, t4, T1) == Mul(cv, Sub(t4, T1))

w_net(qin, qout) == Sub(qin, qout)

\* lines 35-36: the two efficiencies
eta(qout, qin) == Sub(One, Div(qout, qin))

eta_theoryInverted(r, gamma) == Sub(One, Div(One, Pow(r, Sub(One, gamma))))

eta_theory(r, gamma) == Sub(One, Div(One, Pow(r, Sub(gamma, One))))

\* lines 37-39: mean effective pressure
v1(g, T1, P1) == Div(Mul(g.R_air, T1), P1)

v2(v, r) == Div(v, r)

mepFullVolume(wnet, va, vb) == Div(wnet, va)

mep(wnet, va, vb) == Div(wnet, Sub(va, vb))

\* lines 15-39 of otto_cycle, one assignment each: the line, the local it
\* binds, and its value in the namespace g and the locals L bound so far
OttoLines == <<15, 16, 19, 20, 23, 26, 27, 30, 31, 32, 35, 36, 37, 38, 39>>

OttoNames ==
    <<"Cv", "Cp", "T2", "P2", "P3", "T4", "P4", "q_in", "q_out", "w_net",
      "eta", "eta_theory", "v1", "v2", "mep">>

OttoStmt(k, g, L) ==
    CASE k = 1 -> Cv(g, L["gamma"])
      [] k = 2 -> Cp(L["Cv"], L["gamma"])
      [] k = 3 -> T2(L["T1"], L["r"], L["gamma"])
      [] k = 4 -> P2(L["P1"], L["r"], L["gamma"])
      [] k = 5 -> P3(L["P2"], L["T3"], L["T2"])
      [] k = 6 -> T4(L["T3"], L["r"], L["gamma"])
      [] k = 7 -> P4(L["P3"], L["T4"], L["T3"])
      [] k = 8 -> q_in(L["Cv"], L["T3"], L["T2"])
      [] k = 9 -> q_out(L["Cv"], L["T4"], L["T1"])
      [] k = 10 -> w_net(L["q_in"], L["q_out"])
      [] k = 11 -> eta(L["q_out"], L["q_in"])
      [] k = 12 -> eta_theory(L["r"], L["gamma"])
      [] k = 13 -> v1(g, L["T1"], L["P1"])
      [] k = 14 -> v2(L["v1"], L["r"])
      [] k = 15 -> mep(L["w_net"], L["v1"], L["v2"])

\* lines 41-43: the dictionary returned
OttoReturn(L) ==
    [outcome |-> "return",
     states |-> [T1 |-> L["T1"], P1 |-> L["P1"], T2 |-> L["T2"], P2 |-> L["P2"],
                 T3 |-> L["T3"], P3 |-> L["P3"], T4 |-> L["T4"], P4 |-> L["P4"]],
     q_in |-> L["q_in"], q_out |-> L["q_out"], w_net |-> L["w_net"],
     eta |-> L["eta"], eta_theory |-> L["eta_theory"], mep |-> L["mep"]]

\* a call stopped at `line` by the value v that is no number, with the locals
\* bound until then
Stopped(v, line, L) ==
    [outcome |-> IF v[3] = "inexact" THEN "inexact" ELSE "raise",
     exc |-> v[3], line |-> line, frame |-> L]

\* the statements from the k-th on, in source order: the first one whose value
\* is no number stops the call there
RECURSIVE OttoExec(_, _, _)
OttoExec(k, g, L) ==
    IF k > Len(OttoLines) THEN OttoReturn(L)
    ELSE LET v == OttoStmt(k, g, L)
         IN  IF IsNum(v) THEN OttoExec(k + 1, g, (OttoNames[k] :> v) @@ L)
             ELSE Stopped(v, OttoLines[k], L)

\* lines 13-43
otto_cycle(g, T1, P1, r, T3, gamma) ==
    OttoExec(1, g, [T1 |-> T1, P1 |-> P1, r |-> r, T3 |-> T3, gamma |-> gamma])

\* the values a call bound to local `name`: one when it got that far, else none
Local(result, name) ==
    IF result.outcome = "return" THEN {result[name]}
    ELSE IF name \in DOMAIN result.frame THEN {result.frame[name]}
    ELSE {}

----------------------------------------------------------------------------
(* q2.py: the module namespace and approximate_rankine *)

mass_flowrate == Num(48)

P_low == Num(50)

P_high_list == <<Num(3000), Num(4000), Num(5000)>>

\* line 10: 400 + 273.15
T_high == Add(Num(400), Frac(27315, 100))

cp_liquid == Frac(418, 100)

\* the namespace of q2.py once lines 1-45 have run
Q2Init ==
    [mass_flowrate |-> mass_flowrate, P_low |-> P_low,
     P_high_list |-> P_high_list, T_high |-> T_high,
     h_fg_100 |-> Num(2257), cp_liquid |-> cp_liquid,
     gamma |-> Frac(133, 100), R |-> Frac(4615, 10000),
     efficiencies |-> <<>>, powers |-> <<>>,
     P_high |-> Unbound, eff |-> Unbound, power |-> Unbound,
     states |-> <<>>]

\* lines 20-23: 1 -> 2, the pump
h1 == Num(340)

v1_liquid == Frac(1, 1000)

pump_workNoCondenser(g, P_high_kPa) == Mul(v1_liquid, P_high_kPa)

pump_work(g, P_high_kPa) == Mul(v1_liquid, Sub(P_high_kPa, g.P_low))

h2Unpumped(h, pw) == h

h2(h, pw) == Add(h, pw)

\* lines 26-27: 2 -> 3, the boiler
h_g(P_high_kPa) ==
    Add(Num(2800),
        Mul(Div(Mul(Frac(1, 10), Sub(P_high_kPa, Num(3000))), Num(1000)),
            Num(100)))

h3(g, hg) ==
    Add(hg,
        Mul(Div(Mul(g.cp_liquid, Sub(g.T_high, Frac(47315, 100))), Num(1000)),
            Num(100)))

\* line 30: 3 -> 4, the turbine
h4(hc, ha) == Sub(hc, Mul(Frac(25, 100), Sub(hc, ha)))

\* lines 33-40
turbine_work(hc, hd) == Sub(hc, hd)

pump_work_34(hb, ha) == Sub(hb, ha)

net_work(tw, pw) == Sub(tw, pw)

heat_added(hc, hb) == Sub(hc, hb)

efficiency(nw, ha) == Div(nw, ha)

net_power(g, nw) == Mul(nw, g.mass_flowrate)

\* lines 20-40 of approximate_rankine, one assignment each (pump_work is bound
\* twice, at lines 22 and 34)
RankineLines == <<20, 22, 23, 26, 27, 30, 33, 34, 35, 36, 37, 40>>

RankineNames ==
    <<"h1", "pump_work", "h2", "h_g", "h3", "h4", "turbine_work", "pump_work",
      "net_work", "heat_added", "efficiency", "net_power">>

RankineStmt(k, g, L) ==
    CASE k = 1 -> h1
      [] k = 2 -> pump_work(g, L["P_high_kPa"])
      [] k = 3 -> h2(L["h1"], L["pump_work"])
      [] k = 4 -> h_g(L["P_high_kPa"])
      [] k = 5 -> h3(g, L["h_g"])
      [] k = 6 -> h4(L["h3"], L["h1"])
      [] k = 7 -> turbine_work(L["h3"], L["h4"])
      [] k = 8 -> pump_work_34(L["h2"], L["h1"])
      [] k = 9 -> net_work(L["turbine_work"], L["pump_work"])
      [] k = 10 -> heat_added(L["h3"], L["h2"])
      [] k = 11 -> efficiency(L["net_work"], L["heat_added"])
      [] k = 12 -> net_power(g, L["net_work"])

\* line 42: the tuple returned
RankineReturn(L) ==
    [outcome |-> "return", efficiency |-> L["efficiency"],
     net_power |-> L["net_power"],
     states |-> <<L["h1"], L["h2"], L["h3"], L["h4"]>>]

RECURSIVE RankineExec(_, _, _)
RankineExec(k, g, L) ==
    IF k > Len(RankineLines) THEN RankineReturn(L)
    ELSE LET v == RankineStmt(k, g, L)
         IN  IF IsNum(v) THEN RankineExec(k + 1, g, (RankineNames[k] :> v) @@ L)
             ELSE Stopped(v, RankineLines[k], L)

\* lines 18-42
approximate_rankine(g, P_high_kPa) ==
    RankineExec(1, g, [P_high_kPa |-> P_high_kPa])

----------------------------------------------------------------------------
(* The inputs of the calls made from outside the scripts *)

MaxBase == 3

MaxK == 40

T1Values == {Num(300), Num(600)}

P1Values == {Num(100000), Num(101325)}

T3Values == {Num(600), Num(2400)}

GammaValues == {Frac(1, 2), One, Frac(7, 5), Frac(3, 2), Num(2)}

\* compression ratios with rational powers: squares, their reciprocals and 2^5,
\* each as a Python float and as a numpy float64
Ratios ==
    {Num(b * b) : b \in 1..MaxBase} \cup {Frac(1, b * b) : b \in 1..MaxBase}
        \cup {Num(32)}

RValues == Ratios \cup {Float64(x) : x \in Ratios}

\* the boiler pressure at which heat_added = h3 - h2 is zero
SingularP == Frac(-2513650, 9)

PValues == {Num(250 * k) : k \in 0..MaxK} \cup {SingularP}

NoCall == [fn |-> "none"]

----------------------------------------------------------------------------
(* The scripts *)

Init ==
    /\ prog \in {"q1", "q2"}
    /\ pc = IF prog = "q1" THEN "main" ELSE "sweep"
    /\ it = 0
    /\ q1 = Q1Init
    /\ q2 = Q2Init
    /\ call = NoCall

\* otto_cycle called with the defaults of line 13 for all but r and T3
OttoDefault(g, r, T3) == otto_cycle(g, Num(300), Num(101325), r, T3, Frac(14, 10))

\* what a script reads from a result it got back
Item(result, name) ==
    IF result.outcome = "return" THEN result[name] ELSE <<0, 0, result.exc>>

\* q1.py lines 46-60
MainEvaluation ==
    /\ prog = "q1" /\ pc = "main"
    /\ q1' = [q1 EXCEPT !.otto = OttoDefault(q1, q1.r_main, q1.upper_temp_lim)]
    /\ pc' = IF q1'.otto.outcome = "raise" THEN "error" ELSE "temperature_plot"
    /\ UNCHANGED <<prog, it, q2, call>>

\* q1.py lines 71-74 and 83-86: one iteration of `for i, r in enumerate(r_values)`
PlotStep(at) ==
    /\ prog = "q1" /\ pc = at /\ it < Len(r_values)
    /\ q1' = [q1 EXCEPT !.i = Num(it), !.r = r_values[it + 1],
                        !.res = OttoDefault(q1, r_values[it + 1], q1.upper_temp_lim)]
    /\ pc' = IF q1'.res.outcome = "raise" THEN "error" ELSE at
    /\ it' = it + 1
    /\ UNCHANGED <<prog, q2, call>>

TemperaturePlotStep == PlotStep("temperature_plot")

PressurePlotStep == PlotStep("pressure_plot")

\* q1.py lines 75-82 and 88-94: the loop is exhausted
PlotEnd(at, next) ==
    /\ prog = "q1" /\ pc = at /\ it = Len(r_values)
    /\ pc' = next
    /\ it' = 0
    /\ UNCHANGED <<prog, q1, q2, call>>

TemperaturePlotEnd == PlotEnd("temperature_plot", "pressure_plot")

PressurePlotEnd == PlotEnd("pressure_plot", "range_sweep")

NumPoints == 100

\* np.linspace(3, 12, 100), line 97
r_range == [k \in 1..NumPoints |-> Float64(Frac(3 * (NumPoints - 1) + 9 * (k - 1), NumPoints - 1))]

\* q1.py lines 97-114: the comprehensions bind their own r, not the module's
RangeSweep ==
    /\ prog = "q1" /\ pc = "range_sweep"
    /\ LET got == [k \in 1..NumPoints |->
                      otto_cycle(q1, Num(300), Num(101325), r_range[k],
                                 upper_temp_lim, Frac(14, 10))]
       IN  /\ q1' = [q1 EXCEPT
                       !.etas = [k \in 1..NumPoints |-> Mul(Item(got[k], "eta"), Num(100))],
                       !.meps = [k \in 1..NumPoints |-> Div(Item(got[k], "mep"), Num(100000))]]
           /\ pc' = IF \E k \in 1..NumPoints : got[k].outcome = "raise"
                    THEN "error" ELSE "done"
    /\ UNCHANGED <<prog, it, q2, call>>

\* q2.py lines 47-53: one iteration of `for P_high in P_high_list`
SweepStep ==
    /\ prog = "q2" /\ pc = "sweep" /\ it < Len(q2.P_high_list)
    /\ LET P == q2.P_high_list[it + 1]
           got == approximate_rankine([q2 EXCEPT !.P_high = P], P)
       IN  IF got.outcome = "return"
           THEN /\ q2' = [q2 EXCEPT !.P_high = P, !.eff = got.efficiency,
                                    !.power = got.net_power, !.states = got.states,
                                    !.efficiencies = Append(@, got.efficiency),
                                    !.powers = Append(@, got.net_power)]
                /\ pc' = "sweep"
           ELSE /\ q2' = [q2 EXCEPT !.P_high = P]
                /\ pc' = "error"
    /\ it' = it + 1
    /\ UNCHANGED <<prog, q1, call>>

\* q2.py lines 55-73
SweepEnd ==
    /\ prog = "q2" /\ pc = "sweep" /\ it = Len(q2.P_high_list)
    /\ pc' = "done"
    /\ UNCHANGED <<prog, it, q1, q2, call>>

\* A caller of the module's function.  The module is a script: importing it
\* runs it to its last line, so a caller outside it gets the function, and the
\* namespace the function reads, only once the script is done.
CallOtto ==
    /\ prog = "q1" /\ pc = "done"
    /\ \E T1 \in T1Values, P1 \in P1Values, r \in RValues, T3 \in T3Values,
          gamma \in GammaValues :
          call' = [fn |-> "otto_cycle", args |-> <<T1, P1, r, T3, gamma>>,
                   result |-> otto_cycle(q1, T1, P1, r, T3, gamma)]
    /\ UNCHANGED <<prog, pc, it, q1, q2>>

CallRankine ==
    /\ prog = "q2" /\ pc = "done"
    /\ \E P \in PValues :
          call' = [fn |-> "approximate_rankine", args |-> <<P>>,
                   result |-> approximate_rankine(q2, P)]
    /\ UNCHANGED <<prog, pc, it, q1, q2>>

Next ==
    \/ MainEvaluation
    \/ TemperaturePlotStep
    \/ TemperaturePlotEnd
    \/ PressurePlotStep
    \/ PressurePlotEnd
    \/ RangeSweep
    \/ SweepStep
    \/ SweepEnd
    \/ CallOtto
    \/ CallRankine

Spec == Init /\ [][Next]_vars

----------------------------------------------------------------------------
(* What the claims speak of: the last call and its arguments *)

OttoCall == call.fn = "otto_cycle"

RankineCall == call.fn = "approximate_rankine"

Returned == call.result.outcome = "return"

Raised == call.result.outcome = "raise"

ArgT1 == call.args[1]

ArgP1 == call.args[2]

ArgR == call.args[3]

ArgT3 == call.args[4]

ArgGamma == call.args[5]

ArgP == call.args[1]

\* T2 = T1 * r^(gamma-1) of the last call's arguments
ArgT2 == T2(ArgT1, ArgR, ArgGamma)

\* the last call's arguments with another compression ratio
OttoAt(ra) == otto_cycle(q1, ArgT1, ArgP1, ra, ArgT3, ArgGamma)

----------------------------------------------------------------------------
\* C1: for every call with r > 1 and gamma > 1 that returns, the returned eta
\* (energy balance) equals the returned eta_theory (closed form), whatever T1,
\* P1 and T3 are.
C1_EtaEqualsTheory ==
    (OttoCall /\ Lt(One, ArgR) /\ Lt(One, ArgGamma) /\ Returned)
        => Eq(call.result.eta, call.result.eta_theory)

\* C2 as claimed: the efficiencies the sweep collects for 3000, 4000 and
\* 5000 kPa are strictly increasing.
C2_SweepIncreasing ==
    (prog = "q2" /\ pc = "done")
        => /\ Len(q2.efficiencies) = 3
           /\ Lt(q2.efficiencies[1], q2.efficiencies[2])
           /\ Lt(q2.efficiencies[2], q2.efficiencies[3])

\* C2 as amended: the three efficiencies the sweep collects, in the order of
\* P_high_list, are strictly decreasing, while the net powers collected beside
\* them are strictly increasing.
C2_SweepDecreasing ==
    (prog = "q2" /\ pc = "done")
        => /\ Len(q2.efficiencies) = 3
           /\ Len(q2.powers) = 3
           /\ Lt(q2.efficiencies[2], q2.efficiencies[1])
           /\ Lt(q2.efficiencies[3], q2.efficiencies[2])
           /\ Lt(q2.powers[1], q2.powers[2])
           /\ Lt(q2.powers[2], q2.powers[3])

C2_Witness ==
    /\ prog = "q2" /\ pc = "done"
    /\ q2.P_high = Num(5000)
    /\ Len(q2.efficiencies) = 3

\* C3 as claimed: a call with r = 1 (T1 > 0, P1 > 0, gamma > 1) raises no
\* division error: it returns, with eta_theory = 0.
C3_UnitRatioReturns ==
    (OttoCall /\ Eq(ArgR, One) /\ Lt(One, ArgGamma) /\ Pos(ArgT1) /\ Pos(ArgP1))
        => (Returned /\ Eq(call.result.eta_theory, Zero))

\* C3 as amended: with r = 1 (T1, P1, T3 > 0, gamma > 1) line 36 raises nothing,
\* and eta_theory is 0 whenever the call gets that far; but for a Python
\* number r the call raises ZeroDivisionError, at line 35 (q_in = 0) when
\* T3 = T1 and else at line 39 (v1 - v2 = 0) with eta_theory = 0 already bound;
\* only for a numpy float64 r does it return, with eta_theory = 0 and an mep
\* that is inf or nan.
C3_UnitRatio ==
    (OttoCall /\ Eq(ArgR, One) /\ Lt(One, ArgGamma) /\ Pos(ArgT1) /\ Pos(ArgP1)
        /\ Pos(ArgT3))
        => /\ \A v \in Local(call.result, "eta_theory") : Eq(v, Zero)
           /\ ArgR[3] = "float" =>
                /\ Raised
                /\ call.result.exc = "ZeroDivisionError"
                /\ call.result.line = IF Eq(ArgT3, ArgT1) THEN 35 ELSE 39
                /\ call.result.line = 39 => Local(call.result, "eta_theory") # {}
           /\ ArgR[3] = "float64" =>
                /\ Returned
                /\ Eq(call.result.eta_theory, Zero)
                /\ ~IsFinite(call.result.mep)

C3_Witness ==
    /\ OttoCall /\ Eq(ArgR, One) /\ Lt(One, ArgGamma) /\ ArgR[3] = "float"
    /\ Raised /\ call.result.line = 39
    /\ Local(call.result, "eta_theory") = {Zero}

\* C4: a singular configuration (q_in = 0, i.e. T3 = T2, or v1 - v2 = 0, i.e.
\* r = 1, in otto_cycle; heat_added = 0 in approximate_rankine) ends the call
\* in a failure: no result is returned.
C4_SingularNeverReturns ==
    /\ (OttoCall /\ call.result.outcome # "inexact"
          /\ (Eq(ArgT3, ArgT2) \/ Eq(ArgR, One)))
         => Raised
    /\ (RankineCall
          /\ Eq(h3(q2, h_g(ArgP)), h2(h1, pump_work(q2, ArgP))))
         => Raised

\* C5: otto_cycle rejects r <= 1, gamma <= 1 and T3 <= T2: such a call fails
\* and returns no result.
C5_InvalidInputRejected ==
    (OttoCall /\ call.result.outcome # "inexact"
        /\ (Leq(ArgR, One) \/ Leq(ArgGamma, One) \/ Leq(ArgT3, ArgT2)))
        => Raised

ValidOtto ==
    /\ OttoCall
    /\ Pos(ArgT1) /\ Pos(ArgP1) /\ Lt(One, ArgR) /\ Lt(One, ArgGamma)
    /\ IsFinite(ArgT2) /\ Lt(ArgT2, ArgT3)

\* C7: for every physically valid input (T1, P1 > 0, r > 1, gamma > 1,
\* T3 > T2) the call returns with 0 < eta < 1, w_net > 0 and mep > 0.
C7_ValidInputBounds ==
    ValidOtto
        => /\ Returned
           /\ Lt(Zero, call.result.eta) /\ Lt(call.result.eta, One)
           /\ Pos(call.result.w_net)
           /\ Pos(call.result.mep)

C7_Witness ==
    /\ ValidOtto /\ Returned
    /\ Lt(Zero, call.result.eta) /\ Lt(call.result.eta, One)
    /\ ArgR[3] = "float64"

\* C8: for every P_high in 1000..10000 kPa approximate_rankine returns h1 = 340
\* and h2 = 340 + 0.001*(P_high - 50) (342.95 at 3000), a positive efficiency
\* and a positive net_power = net_work * 48.
C8_RankineInRange ==
    (RankineCall /\ Leq(Num(1000), ArgP) /\ Leq(ArgP, Num(10000)))
        => /\ Returned
           /\ Eq(call.result.states[1], Num(340))
           /\ Eq(call.result.states[2],
                 Frac(340000 * ArgP[2] + ArgP[1] - 50 * ArgP[2], 1000 * ArgP[2]))
           /\ Eq(ArgP, Num(3000)) => Eq(call.result.states[2], Frac(34295, 100))
           /\ Pos(call.result.efficiency)
           /\ Pos(call.result.net_power)
           /\ Eq(call.result.net_power,
                 Mul(Sub(Sub(call.result.states[3], call.result.states[4]),
                         Sub(call.result.states[2], call.result.states[1])),
                     Num(48)))

C8_Witness ==
    /\ RankineCall /\ Eq(ArgP, Num(3000)) /\ Returned
    /\ Eq(call.result.states[2], Frac(34295, 100))
    /\ Pos(call.result.efficiency)

\* the namespace of q1.py with its module-level gamma, Cv and Cp rebound
Q1WithGamma(gm) ==
    [q1 EXCEPT !.gamma = gm, !.Cv = Div(R_air, Sub(gm, One)),
               !.Cp = Mul(Div(R_air, Sub(gm, One)), gm)]

\* C9: no hidden state.  Whatever the scripts' steps have bound in the module
\* namespace (r, i, res, otto; P_high, eff, power, states, efficiencies,
\* powers), a call returns what the same call returns in the namespace the
\* module had when the function was defined, and otto_cycle returns the same
\* whatever the module-level gamma, Cv and Cp are; so do the calls the sweeps
\* themselves make.
C9_NoHiddenState ==
    /\ OttoCall =>
         /\ call.result = otto_cycle(Q1Init, ArgT1, ArgP1, ArgR, ArgT3, ArgGamma)
         /\ \A gm \in GammaValues :
               call.result = otto_cycle(Q1WithGamma(gm), ArgT1, ArgP1, ArgR,
                                        ArgT3, ArgGamma)
    /\ RankineCall => call.result = approximate_rankine(Q2Init, ArgP)
    /\ (prog = "q1" /\ IsNum(q1.r)) =>
         q1.res = OttoDefault(Q1Init, q1.r, upper_temp_lim)
    /\ prog = "q2" =>
         \A k \in 1..Len(q2.efficiencies) :
            /\ q2.efficiencies[k]
                 = approximate_rankine(Q2Init, P_high_list[k]).efficiency
            /\ q2.powers[k]
                 = approximate_rankine(Q2Init, P_high_list[k]).net_power

C9_Witness ==
    /\ OttoCall /\ Returned
    /\ IsNum(q1.r) /\ ~Eq(q1.r, ArgR)
    /\ ~Eq(q1.gamma, ArgGamma)
    /\ ArgR[3] = "float"

\* C10: the four state points form a consistent ideal-gas cycle between two
\* volumes: for T1, P1 > 0, r > 1, gamma > 1, states 2 and 3 are at one volume
\* (P3/P2 = T3/T2) and state 4 is at the volume of state 1 (P4/P1 = T4/T1,
\* that is P4 = P3 * r^(-gamma)).
C10_StatePointsConsistent ==
    (OttoCall /\ Returned /\ Pos(ArgT1) /\ Pos(ArgP1) /\ Lt(One, ArgR)
        /\ Lt(One, ArgGamma))
        => /\ Eq(Div(call.result.states.P3, call.result.states.P2),
                 Div(call.result.states.T3, call.result.states.T2))
           /\ Eq(Div(call.result.states.P4, call.result.states.P1),
                 Div(call.result.states.T4, call.result.states.T1))
           /\ Eq(call.result.states.P4,
                 Mul(call.result.states.P3, Pow(ArgR, Neg(ArgGamma))))

====
